---- MODULE Spec2Model ----
(***************************************************************************)
(* Estim8: the reference-hour estimation engine of models.py               *)
(* (Project.get_phase_ratio, Project.calculate_reference_interval,         *)
(* Project.calculate_discipline_reference_intervals) over the              *)
(* ReferenceRatio / DisciplineReferenceRatio tables.                       *)
(* Further sections: the progress calculators and the two bulk progress    *)
(* recomputations (app.py, update_project_progress.py), the hour and cost  *)
(* aggregation over the HistoricalRate table, the validation of the two    *)
(* ratio forms (forms.py), the revision renumbering                        *)
(* (update_revision_numbering.py), the row insertion of the migration to   *)
(* PostgreSQL (migrate_to_postgres.py) and the SystemSetting store.        *)
(*                                                                         *)
(* Numbers.  Python floats are modelled as exact decimals [m, e] meaning   *)
(* m * 10^(-e), kept normalised (no trailing zero in the mantissa while    *)
(* e > 0), so that equal values are equal records.  Binary rounding of     *)
(* the float type is not modelled.                                         *)
(* None in a nullable Float column is NoneNumber; the quotient of two day  *)
(* counts is an exact fraction [num, den].                                 *)
(*                                                                         *)
(* Text.  A Python str is a sequence of one-character strings; None is     *)
(* the value NONE.                                                         *)
(***************************************************************************)
EXTENDS Integers, Sequences, FiniteSets, TLC

VARIABLES
    reference_ratio,             \* table reference_ratio: sequence of rows, id = index
    discipline_reference_ratio,  \* table discipline_reference_ratio: set of rows
    project,                     \* table project: sequence of rows, id = index
    historical_rate,             \* table historical_rate: sequence of rows in insertion order
    last_run,                    \* the bulk recomputation run last, "none" once a project was edited after it
    system_setting,              \* table system_setting: sequence of rows, id = index
    pg_table,                    \* the PostgreSQL table a migration fills: its committed rows
    ret                          \* the last call or request: its receiver and inputs, the outcome of its queries, its result

vars ==
    <<reference_ratio, discipline_reference_ratio, project, historical_rate, last_run,
      system_setting, pg_table, ret>>

ratioTables == <<reference_ratio, discipline_reference_ratio>>
scriptTables == <<system_setting, pg_table>>
projectTables == <<project, historical_rate, last_run, scriptTables>>

----------------------------------------------------------------------------
(* Bounds *)

MaxRatioRows == 2
MaxDisciplineRows == 1

----------------------------------------------------------------------------
(* Decimal arithmetic *)

RECURSIVE Pow10(_)
Pow10(n) == IF n = 0 THEN 1 ELSE 10 * Pow10(n - 1)

RECURSIVE Norm(_)
Norm(d) ==
    IF d.m = 0 THEN [m |-> 0, e |-> 0]
    ELSE IF d.e > 0 /\ d.m % 10 = 0 THEN Norm([m |-> d.m \div 10, e |-> d.e - 1])
    ELSE d

Dec(m, e) == Norm([m |-> m, e |-> e])

Mul(a, b) == Norm([m |-> a.m * b.m, e |-> a.e + b.e])

MaxOf(x, y) == IF x >= y THEN x ELSE y

Leq(a, b) ==
    LET k == MaxOf(a.e, b.e)
    IN  a.m * Pow10(k - a.e) <= b.m * Pow10(k - b.e)

Zero == Dec(0, 0)
One == Dec(1, 0)

----------------------------------------------------------------------------
(* Python values *)

NONE == <<"None">>

\* truthiness of an Optional[str]: None and '' are falsy
Falsy(s) == s = NONE \/ s = <<>>

Digits == {"0", "1", "2", "3", "4", "5", "6", "7", "8", "9"}

DigitVal ==
    "0" :> 0 @@ "1" :> 1 @@ "2" :> 2 @@ "3" :> 3 @@ "4" :> 4 @@
    "5" :> 5 @@ "6" :> 6 @@ "7" :> 7 @@ "8" :> 8 @@ "9" :> 9

RECURSIVE DigitsToInt(_)
DigitsToInt(s) ==
    IF s = <<>> THEN 0
    ELSE 10 * DigitsToInt(SubSeq(s, 1, Len(s) - 1)) + DigitVal[s[Len(s)]]

RECURSIVE LStrip(_)
LStrip(s) == IF s # <<>> /\ s[1] = " " THEN LStrip(Tail(s)) ELSE s

RECURSIVE RStrip(_)
RStrip(s) ==
    IF s # <<>> /\ s[Len(s)] = " " THEN RStrip(SubSeq(s, 1, Len(s) - 1)) ELSE s

IsDot(c) == c = "."
IsDigit(c) == c \in Digits
NotDot(c) == c # "."

\* position of the first '.' in s, Len(s) + 1 when there is none
RECURSIVE DotPos(_)
DotPos(s) ==
    IF s = <<>> THEN 1
    ELSE IF s[1] = "." THEN 1 ELSE 1 + DotPos(Tail(s))

\* an unsigned decimal literal: digits with at most one '.', at least one digit
IsDecimalLiteral(s) ==
    /\ \A i \in 1..Len(s) : s[i] \in Digits \/ s[i] = "."
    /\ Len(SelectSeq(s, IsDot)) <= 1
    /\ Len(SelectSeq(s, IsDigit)) >= 1

\* value of a decimal literal: all its digits, scaled by the digits after the '.'
DecimalValue(s) ==
    Dec(DigitsToInt(SelectSeq(s, NotDot)),
        IF DotPos(s) > Len(s) THEN 0 ELSE Len(s) - DotPos(s))

\* Python float(str) on texts without exponent, underscore, inf or nan:
\* surrounding whitespace is ignored, one sign is accepted, the rest must
\* be a decimal literal; anything else raises ValueError.
PyFloat(s) ==
    LET t == RStrip(LStrip(s))
        signed == t # <<>> /\ t[1] \in {"+", "-"}
        body == IF signed THEN Tail(t) ELSE t
    IN  IF IsDecimalLiteral(body)
        THEN [exc |-> "", v |-> IF signed /\ t[1] = "-"
                                THEN Dec(0 - DecimalValue(body).m, DecimalValue(body).e)
                                ELSE DecimalValue(body)]
        ELSE [exc |-> "ValueError", v |-> Zero]

\* ''.join(filter(lambda x: x.isdigit() or x == '.', s))
KeepDigitsAndDots(c) == IsDigit(c) \/ IsDot(c)
StripNonNumeric(s) == SelectSeq(s, KeepDigitsAndDots)

----------------------------------------------------------------------------
(* Inputs *)

CanonicalPhases ==
    {"Identify", "Evaluate", "Define", "Design", "Build", "Commissioning", "Asset Management"}

\* Project.phase is a nullable string; PhaseNone stands for Python None
PhaseNone == "<None>"
Phases == CanonicalPhases \cup {"Other", "NoSuchPhase", PhaseNone}
FalsyPhase(p) == p = PhaseNone \/ p = ""

\* phases of stored ReferenceRatio rows (choices of ReferenceRatioForm.phase)
StorePhases == {"Design", "Other"}

\* values of project_tic
TicTexts ==
    { NONE,
      <<>>,
      <<"0">>,
      <<"5">>,
      <<"1", "2", ".", "5">>,
      <<".", "5">>,
      <<"-", "5">>,
      <<" ", "5", " ">>,
      <<"1", ",", "5">>,
      <<"5", " ", "D", "H">>,
      <<"1", ".", "2", ".", "5">>,
      <<".">>,
      <<"D", "H">>,
      <<"1", "2", "3", "4", ".", "5", "6">>,
      <<"1", ",", "2", "3", "4", ".", "5", "6", " ", "D", "H">> }

\* values of the (low_ratio, avg_ratio, high_ratio) columns of a stored row:
\* ordered with a zero, ordered without, and out of order
RatioTriples ==
    { <<Dec(0, 0), Dec(45, 2), Dec(9, 1)>>,
      <<Dec(9, 1), Dec(45, 2), Dec(0, 0)>> }

\* the disciplines list of calculate_discipline_reference_intervals
disciplines ==
    {"Process & SID", "Civil & Structure", "Piping", "Mechanical", "Electrical",
     "Instrumentation & Control", "Digitalization", "Engineering Management",
     "Environmental", "Tools Admin", "Construction"}

\* values of DisciplineReferenceRatio.discipline: a canonical name and one
\* that is not in the list
StoredDisciplines == {"Piping", "Welding"}

\* values of the (low_ratio, avg_ratio, high_ratio) columns of a stored
\* discipline row
DisciplineTriples ==
    { <<Dec(5, 1), Dec(25, 2), Dec(1, 0)>> }

\* projects the discipline calculator is called on
DisciplineTicTexts ==
    { NONE, <<>>, <<"0">>, <<"5">>, <<"-", "5">>, <<"1", ",", "5">>,
      <<"1", ".", "2", ".", "5">> }
DisciplinePhases == {"Design", "Other", PhaseNone}

----------------------------------------------------------------------------
(* The ratio store *)

\* variant of the constraint: nothing is enforced
uix_phase_active_absent(rows) == TRUE

\* UniqueConstraint('phase', 'is_active', name='uix_phase_active'):
\* no two rows of the table agree on both phase and is_active
uix_phase_active(rows) ==
    \A i, j \in 1..Len(rows) :
        (rows[i].phase = rows[j].phase /\ rows[i].is_active = rows[j].is_active) => i = j

\* UniqueConstraint('reference_ratio_id', 'discipline', name='uix_ratio_discipline')
uix_ratio_discipline(rows) ==
    \A a, b \in rows :
        (a.reference_ratio_id = b.reference_ratio_id /\ a.discipline = b.discipline) => a = b

\* ReferenceRatio(phase, low_ratio, avg_ratio, high_ratio), is_active defaulting to True
ReferenceRatio(phase, low, avg, high) ==
    [phase |-> phase, low_ratio |-> low, avg_ratio |-> avg, high_ratio |-> high,
     is_active |-> TRUE]

\* query(ReferenceRatio).filter_by(phase=phase, is_active=True): the ids it matches
ActiveRatioIds(phase) ==
    {i \in 1..Len(reference_ratio) :
        reference_ratio[i].phase = phase /\ reference_ratio[i].is_active}

\* the outcomes of .first() on that query: it raises, or yields a matching
\* row (no ORDER BY: any of them), or None when nothing matches
FirstActiveRatio(phase) ==
    {[kind |-> "raise", id |-> 0]}
    \cup (IF ActiveRatioIds(phase) = {}
          THEN {[kind |-> "none", id |-> 0]}
          ELSE {[kind |-> "row", id |-> i] : i \in ActiveRatioIds(phase)})

\* query(DisciplineReferenceRatio).filter_by(reference_ratio_id=id).all()
DisciplineRatiosOf(id) ==
    {dr \in discipline_reference_ratio : dr.reference_ratio_id = id}

----------------------------------------------------------------------------
(* Project.get_phase_ratio *)

Ratio(low, avg, high) == [low |-> low, avg |-> avg, high |-> high]

default_ratios ==
    [p \in CanonicalPhases |->
        CASE p = "Identify"         -> Ratio(Dec(2, 3), Dec(3, 3), Dec(5, 3))
          [] p = "Evaluate"         -> Ratio(Dec(8, 3), Dec(1, 2), Dec(15, 3))
          [] p = "Define"           -> Ratio(Dec(2, 2), Dec(3, 2), Dec(5, 2))
          [] p = "Design"           -> Ratio(Dec(10, 2), Dec(17, 2), Dec(23, 2))
          [] p = "Build"            -> Ratio(Dec(4, 2), Dec(5, 2), Dec(7, 2))
          [] p = "Commissioning"    -> Ratio(Dec(3, 2), Dec(4, 2), Dec(6, 2))
          [] p = "Asset Management" -> Ratio(Dec(1, 2), Dec(15, 3), Dec(25, 3))]

\* default = {'low': 0.02, 'avg': 0.03, 'high': 0.05}
default == Ratio(Dec(2, 2), Dec(3, 2), Dec(5, 2))

Return(v) == [kind |-> "return", value |-> v]
Raise(exc) == [kind |-> "raise", value |-> exc]

\* what a failing query raises (a subclass of Exception)
QueryError == "SQLAlchemyError"

\* variants of get_phase_ratio: a stored row whose low_ratio is 0 taken as
\* missing; an unknown phase given no ratio; the lookup's error not caught
get_phase_ratio_zero_is_missing(self, q) ==
    IF q.kind = "row" /\ reference_ratio[q.id].low_ratio # Zero
    THEN Return(Ratio(reference_ratio[q.id].low_ratio,
                      reference_ratio[q.id].avg_ratio,
                      reference_ratio[q.id].high_ratio))
    ELSE IF self.phase \in DOMAIN default_ratios
         THEN Return(default_ratios[self.phase])
         ELSE Return(default)

get_phase_ratio_no_fallback(self, q) ==
    IF q.kind = "row"
    THEN Return(Ratio(reference_ratio[q.id].low_ratio,
                      reference_ratio[q.id].avg_ratio,
                      reference_ratio[q.id].high_ratio))
    ELSE IF self.phase \in DOMAIN default_ratios
         THEN Return(default_ratios[self.phase])
         ELSE Return(Ratio(Zero, Zero, Zero))

get_phase_ratio_uncaught(self, q) ==
    IF q.kind = "raise" THEN Raise(QueryError)
    ELSE IF q.kind = "row"
    THEN Return(Ratio(reference_ratio[q.id].low_ratio,
                      reference_ratio[q.id].avg_ratio,
                      reference_ratio[q.id].high_ratio))
    ELSE IF self.phase \in DOMAIN default_ratios
         THEN Return(default_ratios[self.phase])
         ELSE Return(default)

\* self is the project, q the outcome of the active-ratio query.  A raising
\* query is caught (except Exception), logged, and leaves ratio = None; the
\* dict built from a row is truthy whatever its values.
get_phase_ratio(self, q) ==
    IF q.kind = "row"
    THEN Return(Ratio(reference_ratio[q.id].low_ratio,
                      reference_ratio[q.id].avg_ratio,
                      reference_ratio[q.id].high_ratio))
    ELSE IF self.phase \in DOMAIN default_ratios
         THEN Return(default_ratios[self.phase])
         ELSE Return(default)

----------------------------------------------------------------------------
(* Project.calculate_reference_interval *)

\* a variant defaulting to 0, as the discipline calculator does
TicOrZero(self) ==
    IF Falsy(self.project_tic) THEN [exc |-> "", v |-> Zero] ELSE PyFloat(self.project_tic)

\* float(self.project_tic or 1)
TicOrOne(self) ==
    IF Falsy(self.project_tic) THEN [exc |-> "", v |-> One] ELSE PyFloat(self.project_tic)

\* a variant of the except clause that misses ValueError
CaughtTypeErrorOnly == {"TypeError"}

\* the exception classes of the except clause
CaughtByReferenceInterval == {"ValueError", "TypeError"}

\* the try body: float() first, then get_phase_ratio, then the products
ReferenceIntervalBody(self, q) ==
    LET tic_value == TicOrOne(self)
        ratios == get_phase_ratio(self, q)
    IN  IF tic_value.exc # "" THEN Raise(tic_value.exc)
        ELSE IF ratios.kind = "raise" THEN ratios
        ELSE Return([low |-> Mul(tic_value.v, ratios.value.low),
                     avg |-> Mul(tic_value.v, ratios.value.avg),
                     high |-> Mul(tic_value.v, ratios.value.high),
                     tic_not_set |-> Falsy(self.project_tic)])

calculate_reference_interval(self, q) ==
    LET body == ReferenceIntervalBody(self, q)
    IN  IF body.kind = "raise" /\ body.value \in CaughtByReferenceInterval
        THEN Return([low |-> Zero, avg |-> Zero, high |-> Zero, tic_not_set |-> TRUE])
        ELSE body

----------------------------------------------------------------------------
(* Project.calculate_discipline_reference_intervals *)

\* a project_tic attribute that holds an int, not text (the attribute of an
\* object takes any value until the row is written and read back); filter()
\* over it raises TypeError, which the inner except ValueError lets through
NumberTic == <<"<int 5>">>

\* float(''.join(filter(...), self.project_tic or '0')), ValueError giving 0
StrippedTic(self) ==
    LET parsed == PyFloat(StripNonNumeric(IF Falsy(self.project_tic)
                                          THEN <<"0">> ELSE self.project_tic))
    IN  IF parsed.exc = "ValueError" THEN Zero ELSE parsed.v

\* if tic_value > 0 and self.phase: the guard of the discipline queries
RunsDisciplineQueries(self) ==
    StrippedTic(self).m > 0 /\ ~FalsyPhase(self.phase)

Skipped == [kind |-> "skipped", id |-> 0]

\* outcomes of the function's own active-ratio query (not run: Skipped)
SecondRatioQuery(self) ==
    IF RunsDisciplineQueries(self) THEN FirstActiveRatio(self.phase) ELSE {Skipped}

\* outcomes of the discipline query, run only when the ratio query gave a row
DisciplineQuery(q2) ==
    IF q2.kind = "row" THEN {"rows", "raise"} ELSE {"skipped"}

\* the discipline rows the function loads: q2 is the outcome of its own
\* active-ratio query, dq that of the discipline query; either raising is
\* caught (except Exception) and leaves discipline_ratios empty
LoadedDisciplineRatios(self, q2, dq) ==
    IF /\ RunsDisciplineQueries(self)
       /\ q2.kind = "row"
       /\ dq = "rows"
    THEN DisciplineRatiosOf(q2.id)
    ELSE {}

\* variants of the body: the discipline ratio applied to the TIC instead of
\* the reference hours; a discipline without ratio given zero
DisciplineIntervalsBody_ratio_on_tic(self, q, q2, dq) ==
    LET phase_ratios == get_phase_ratio(self, q)
        tic_value == StrippedTic(self)
        reference_hours == [low |-> Mul(tic_value, phase_ratios.value.low),
                            avg |-> Mul(tic_value, phase_ratios.value.avg),
                            high |-> Mul(tic_value, phase_ratios.value.high)]
        discipline_ratios == LoadedDisciplineRatios(self, q2, dq)
        interval(d) ==
            IF \E dr \in discipline_ratios : dr.discipline = d
            THEN LET dr == CHOOSE x \in discipline_ratios : x.discipline = d
                 IN  [low |-> Mul(tic_value, dr.low_ratio),
                      avg |-> Mul(tic_value, dr.avg_ratio),
                      high |-> Mul(tic_value, dr.high_ratio)]
            ELSE reference_hours
    IN  IF phase_ratios.kind = "raise" THEN phase_ratios
        ELSE Return([k \in disciplines \cup {"tic_not_set"} |->
                       IF k = "tic_not_set" THEN Falsy(self.project_tic) ELSE interval(k)])

DisciplineIntervalsBody_zero_without_row(self, q, q2, dq) ==
    LET phase_ratios == get_phase_ratio(self, q)
        tic_value == StrippedTic(self)
        reference_hours == [low |-> Mul(tic_value, phase_ratios.value.low),
                            avg |-> Mul(tic_value, phase_ratios.value.avg),
                            high |-> Mul(tic_value, phase_ratios.value.high)]
        discipline_ratios == LoadedDisciplineRatios(self, q2, dq)
        interval(d) ==
            IF \E dr \in discipline_ratios : dr.discipline = d
            THEN LET dr == CHOOSE x \in discipline_ratios : x.discipline = d
                 IN  [low |-> Mul(reference_hours.low, dr.low_ratio),
                      avg |-> Mul(reference_hours.avg, dr.avg_ratio),
                      high |-> Mul(reference_hours.high, dr.high_ratio)]
            ELSE [low |-> Zero, avg |-> Zero, high |-> Zero]
    IN  IF phase_ratios.kind = "raise" THEN phase_ratios
        ELSE Return([k \in disciplines \cup {"tic_not_set"} |->
                       IF k = "tic_not_set" THEN Falsy(self.project_tic) ELSE interval(k)])

\* the outer try body
DisciplineIntervalsBody(self, q, q2, dq) ==
    LET phase_ratios == get_phase_ratio(self, q)
        tic_value == StrippedTic(self)
        reference_hours == [low |-> Mul(tic_value, phase_ratios.value.low),
                            avg |-> Mul(tic_value, phase_ratios.value.avg),
                            high |-> Mul(tic_value, phase_ratios.value.high)]
        discipline_ratios == LoadedDisciplineRatios(self, q2, dq)
        interval(d) ==
            IF \E dr \in discipline_ratios : dr.discipline = d
            THEN LET dr == CHOOSE x \in discipline_ratios : x.discipline = d
                 IN  [low |-> Mul(reference_hours.low, dr.low_ratio),
                      avg |-> Mul(reference_hours.avg, dr.avg_ratio),
                      high |-> Mul(reference_hours.high, dr.high_ratio)]
            ELSE reference_hours
    IN  IF phase_ratios.kind = "raise" THEN phase_ratios
        ELSE IF self.project_tic = NumberTic THEN Raise("TypeError")
        ELSE Return([k \in disciplines \cup {"tic_not_set"} |->
                       IF k = "tic_not_set" THEN Falsy(self.project_tic) ELSE interval(k)])

\* except Exception: logged, {'tic_not_set': True} returned
calculate_discipline_reference_intervals(self, q, q2, dq) ==
    LET body == DisciplineIntervalsBody(self, q, q2, dq)
    IN  IF body.kind = "raise"
        THEN Return([k \in {"tic_not_set"} |-> TRUE])
        ELSE body

----------------------------------------------------------------------------
(* Actions *)

Idle == [op |-> "none"]

Projects == [project_tic : TicTexts, phase : Phases]

\* db.session.commit() of a change to reference_ratio: the change is stored,
\* or rejected by uix_phase_active (IntegrityError, rolled back) and the
\* table is as before
Commit(op, id, rows) ==
    /\ reference_ratio' = IF uix_phase_active(rows) THEN rows ELSE reference_ratio
    /\ ret' = [op |-> op, id |-> id, row |-> rows[id], before |-> reference_ratio,
               out |-> IF uix_phase_active(rows) THEN Return(id) ELSE Raise("IntegrityError")]

\* an administrator stores a new, active phase ratio
CreateReferenceRatio ==
    /\ ret = Idle
    /\ Len(reference_ratio) < MaxRatioRows
    /\ \E phase \in StorePhases, r \in RatioTriples :
        Commit("create_reference_ratio", Len(reference_ratio) + 1,
               Append(reference_ratio, ReferenceRatio(phase, r[1], r[2], r[3])))
    /\ UNCHANGED <<discipline_reference_ratio, projectTables>>

\* an administrator flips is_active of a stored phase ratio
SetActive(id, active) ==
    /\ reference_ratio[id].is_active # active
    /\ Commit(IF active THEN "activate_reference_ratio" ELSE "deactivate_reference_ratio",
              id, [reference_ratio EXCEPT ![id].is_active = active])

DeactivateReferenceRatio ==
    /\ ret = Idle
    /\ \E id \in 1..Len(reference_ratio) : SetActive(id, FALSE)
    /\ UNCHANGED <<discipline_reference_ratio, projectTables>>

ActivateReferenceRatio ==
    /\ ret = Idle
    /\ \E id \in 1..Len(reference_ratio) : SetActive(id, TRUE)
    /\ UNCHANGED <<discipline_reference_ratio, projectTables>>

CallGetPhaseRatio ==
    /\ ret = Idle
    /\ \E phase \in Phases :
        LET self == [phase |-> phase]
        IN  \E q \in FirstActiveRatio(self.phase) :
                ret' = [op |-> "get_phase_ratio", self |-> self, q |-> q,
                        out |-> get_phase_ratio(self, q)]
    /\ UNCHANGED <<ratioTables, projectTables>>

CallCalculateReferenceInterval ==
    /\ ret = Idle
    /\ \E self \in Projects :
        \E q \in FirstActiveRatio(self.phase) :
            ret' = [op |-> "calculate_reference_interval", self |-> self, q |-> q,
                    out |-> calculate_reference_interval(self, q)]
    /\ UNCHANGED <<ratioTables, projectTables>>

\* an administrator stores a discipline ratio under an existing phase ratio
\* (foreign key); the insert is rejected when it breaks uix_ratio_discipline
CreateDisciplineReferenceRatio ==
    /\ ret = Idle
    /\ Cardinality(discipline_reference_ratio) < MaxDisciplineRows
    /\ \E id \in 1..Len(reference_ratio), d \in StoredDisciplines, r \in DisciplineTriples :
        LET rows == discipline_reference_ratio \cup
                      {[reference_ratio_id |-> id, discipline |-> d,
                        low_ratio |-> r[1], avg_ratio |-> r[2], high_ratio |-> r[3]]}
        IN  /\ rows # discipline_reference_ratio
            /\ uix_ratio_discipline(rows)
            /\ discipline_reference_ratio' = rows
    /\ UNCHANGED <<reference_ratio, projectTables, ret>>

CallCalculateDisciplineReferenceIntervals ==
    /\ ret = Idle
    /\ \E self \in [project_tic : DisciplineTicTexts, phase : DisciplinePhases] :
        \E q \in FirstActiveRatio(self.phase), q2 \in SecondRatioQuery(self) :
          \E dq \in DisciplineQuery(q2) :
            ret' = [op |-> "calculate_discipline_reference_intervals", self |-> self,
                    q |-> q, q2 |-> q2, dq |-> dq,
                    out |-> calculate_discipline_reference_intervals(self, q, q2, dq)]
    /\ UNCHANGED <<ratioTables, projectTables>>

\* the caller takes the result; the next request starts
ReturnToCaller ==
    /\ ret # Idle
    /\ ret' = Idle
    /\ UNCHANGED <<ratioTables, projectTables>>

Init ==
    /\ reference_ratio = <<>>
    /\ discipline_reference_ratio = {}
    /\ project = <<>>
    /\ historical_rate = <<>>
    /\ last_run = "none"
    /\ system_setting = <<>>
    /\ pg_table = <<>>
    /\ ret = Idle

Next ==
    \/ CreateReferenceRatio
    \/ DeactivateReferenceRatio
    \/ ActivateReferenceRatio
    \/ CallGetPhaseRatio
    \/ CallCalculateReferenceInterval
    \/ ReturnToCaller

Spec == Init /\ [][Next]_vars

\* the discipline-level calculator over the two ratio tables
NextDiscipline ==
    \/ CreateReferenceRatio
    \/ DeactivateReferenceRatio
    \/ ActivateReferenceRatio
    \/ CreateDisciplineReferenceRatio
    \/ CallCalculateDisciplineReferenceIntervals
    \/ ReturnToCaller

SpecDiscipline == Init /\ [][NextDiscipline]_vars

\* the discipline calculator called on a Project object that was not read
\* from the table, whose project_tic may hold a number
CallCalculateDisciplineReferenceIntervalsOnNewProject ==
    /\ ret = Idle
    /\ \E self \in [project_tic : {NumberTic, <<"5">>}, phase : DisciplinePhases] :
        \E q \in FirstActiveRatio(self.phase), q2 \in SecondRatioQuery(self) :
          \E dq \in DisciplineQuery(q2) :
            ret' = [op |-> "calculate_discipline_reference_intervals", self |-> self,
                    q |-> q, q2 |-> q2, dq |-> dq,
                    out |-> calculate_discipline_reference_intervals(self, q, q2, dq)]
    /\ UNCHANGED <<ratioTables, projectTables>>

NextDisciplineShape ==
    \/ NextDiscipline
    \/ CallCalculateDisciplineReferenceIntervalsOnNewProject

SpecDisciplineShape == Init /\ [][NextDisciplineShape]_vars

----------------------------------------------------------------------------
(* Claims about calculate_reference_interval *)

CalledReferenceInterval == ret.op = "calculate_reference_interval"

\* the phase's ratios as the call resolved them
ResolvedRatios == get_phase_ratio(ret.self, ret.q).value

Scaled(v, r) == [low |-> Mul(v, r.low), avg |-> Mul(v, r.avg), high |-> Mul(v, r.high)]

Bounds(value) == [low |-> value.low, avg |-> value.avg, high |-> value.high]

\* C1: for every non-empty project_tic, calculate_reference_interval strips
\* the characters that are neither digit nor '.', parses the rest to v (0 when
\* that fails) and returns v * low_ratio, v * avg_ratio, v * high_ratio of the
\* phase's ratios.
C1_StripsThenScales ==
    (CalledReferenceInterval /\ ~Falsy(ret.self.project_tic)) =>
        /\ ret.out.kind = "return"
        /\ Bounds(ret.out.value) = Scaled(StrippedTic(ret.self), ResolvedRatios)

C3_TicNotSetFollowsField ==
    /\ CalledReferenceInterval =>
        /\ ret.out.kind = "return"
        /\ ret.out.value.tic_not_set = Falsy(ret.self.project_tic)
    /\ ret.op = "calculate_discipline_reference_intervals" =>
        /\ ret.out.kind = "return"
        /\ ret.out.value["tic_not_set"] = Falsy(ret.self.project_tic)

\* C7: calculate_reference_interval never propagates an error: it always
\* returns, and whenever a step of its body raised (the parse of the TIC, the
\* ratio resolver, the products) it returns zero bounds with tic_not_set = true.
C7_NeverPropagates ==
    CalledReferenceInterval =>
        /\ ret.out.kind = "return"
        /\ (TicOrOne(ret.self).exc # "" \/ get_phase_ratio(ret.self, ret.q).kind = "raise") =>
              ret.out.value = [low |-> Zero, avg |-> Zero, high |-> Zero, tic_not_set |-> TRUE]

\* C7 witness: float() raised ValueError on a non-empty TIC and the call
\* returned the zero interval
C7_Witness ==
    /\ CalledReferenceInterval
    /\ ~Falsy(ret.self.project_tic)
    /\ PyFloat(ret.self.project_tic).exc = "ValueError"
    /\ ret.out = Return([low |-> Zero, avg |-> Zero, high |-> Zero, tic_not_set |-> TRUE])

Ordered(r) == Leq(Zero, r.low) /\ Leq(r.low, r.avg) /\ Leq(r.avg, r.high)

\* C8: for every project_tic and every phase whose ratios satisfy
\* 0 <= low <= avg <= high, the returned bounds are non-negative and ordered
\* low <= avg <= high.
C8_BoundsNonNegativeOrdered ==
    (CalledReferenceInterval /\ Ordered(ResolvedRatios)) =>
        /\ ret.out.kind = "return"
        /\ Ordered(ret.out.value)

----------------------------------------------------------------------------
(* Claims about get_phase_ratio *)

CalledGetPhaseRatio == ret.op = "get_phase_ratio"

StoredRatio(i) ==
    Ratio(reference_ratio[i].low_ratio, reference_ratio[i].avg_ratio,
          reference_ratio[i].high_ratio)

\* C4: whenever the lookup returns, get_phase_ratio on a project of phase X
\* gives exactly the low, avg and high of the row that is active for X, zeros
\* included, whatever creations and deactivations came before.
C4_ActiveRowRoundTrip ==
    \A i \in 1..Len(reference_ratio) :
        ( /\ CalledGetPhaseRatio
          /\ ret.q.kind # "raise"
          /\ reference_ratio[i].is_active
          /\ reference_ratio[i].phase = ret.self.phase ) =>
            ret.out = Return(StoredRatio(i))

\* C4 witness: the first row of the phase was deactivated, a second one
\* with a zero ratio created, and get_phase_ratio returned the second
C4_Witness ==
    /\ CalledGetPhaseRatio
    /\ Len(reference_ratio) >= 2
    /\ reference_ratio[1].phase = ret.self.phase
    /\ reference_ratio[2].phase = ret.self.phase
    /\ ~reference_ratio[1].is_active
    /\ reference_ratio[2].is_active
    /\ reference_ratio[2].low_ratio = Zero
    /\ reference_ratio[1].low_ratio # Zero
    /\ ret.out = Return(StoredRatio(2))

\* the built-in table as section 4.1 of the specification lists it
BuiltIn(p) ==
    CASE p = "Identify"         -> Ratio(Dec(2, 3), Dec(3, 3), Dec(5, 3))
      [] p = "Evaluate"         -> Ratio(Dec(8, 3), Dec(10, 3), Dec(15, 3))
      [] p = "Define"           -> Ratio(Dec(20, 3), Dec(30, 3), Dec(50, 3))
      [] p = "Design"           -> Ratio(Dec(100, 3), Dec(170, 3), Dec(230, 3))
      [] p = "Build"            -> Ratio(Dec(40, 3), Dec(50, 3), Dec(70, 3))
      [] p = "Commissioning"    -> Ratio(Dec(30, 3), Dec(40, 3), Dec(60, 3))
      [] p = "Asset Management" -> Ratio(Dec(10, 3), Dec(15, 3), Dec(25, 3))
      [] OTHER                  -> Ratio(Dec(20, 3), Dec(30, 3), Dec(50, 3))

\* C5: with no active ReferenceRatio for the project's phase, get_phase_ratio
\* returns the built-in entry of a canonical phase and the Define defaults
\* 0.02 / 0.03 / 0.05 for every other phase value (Other, unknown, null).
C5_DefaultsWithoutActiveRow ==
    (CalledGetPhaseRatio /\ ActiveRatioIds(ret.self.phase) = {}) =>
        ret.out = Return(BuiltIn(ret.self.phase))

\* C5 witness: the phase's only stored row is inactive and the project's
\* phase is not canonical; the Define defaults came back
C5_Witness ==
    /\ CalledGetPhaseRatio
    /\ ret.self.phase = "Other"
    /\ ret.q.kind = "none"
    /\ \E i \in 1..Len(reference_ratio) : reference_ratio[i].phase = "Other"
    /\ ret.out = Return(Ratio(Dec(2, 2), Dec(3, 2), Dec(5, 2)))

\* C6: get_phase_ratio never fails: for every phase and every outcome of
\* the lookup it returns a {low, avg, high} ratio, and when the lookup raised
\* that ratio is the built-in default of the phase.
C6_NeverFails ==
    CalledGetPhaseRatio =>
        /\ ret.out.kind = "return"
        /\ DOMAIN ret.out.value = {"low", "avg", "high"}
        /\ ret.q.kind = "raise" => ret.out.value = BuiltIn(ret.self.phase)

\* C6 witness: the lookup raised although the phase has an active row, and
\* the built-in default of the phase was returned
C6_Witness ==
    /\ CalledGetPhaseRatio
    /\ ret.q.kind = "raise"
    /\ ActiveRatioIds(ret.self.phase) # {}
    /\ ret.out = Return(BuiltIn(ret.self.phase))

----------------------------------------------------------------------------
(* Claims about calculate_discipline_reference_intervals *)

CalledDisciplineIntervals == ret.op = "calculate_discipline_reference_intervals"

\* the phase-level reference hours of the call: stripped TIC times the
\* phase's ratios
PhaseReferenceHours == Scaled(StrippedTic(ret.self), ResolvedRatios)

\* the discipline rows stored under the active ReferenceRatio of the
\* project's phase
RowsUnderActiveRatio ==
    {dr \in discipline_reference_ratio :
        dr.reference_ratio_id \in ActiveRatioIds(ret.self.phase)}

\* the discipline lookups of the call returned (or were not needed)
DisciplineLookupReturned == ret.q2.kind # "raise" /\ ret.dq # "raise"

\* C9: whenever the discipline lookups return, a discipline with a row under
\* the active ReferenceRatio of the project's phase gets
\* (TIC * phase ratio) * discipline ratio for low, avg and high, and a row
\* under an inactive ReferenceRatio or under another phase changes nothing:
\* its discipline gets the phase-level reference hours.
C9_DisciplineRatioCompounds ==
    (CalledDisciplineIntervals /\ DisciplineLookupReturned) =>
        LET hours == PhaseReferenceHours
            active == RowsUnderActiveRatio
        IN  /\ ret.out.kind = "return"
            /\ \A dr \in active :
                  dr.discipline \in disciplines =>
                    ret.out.value[dr.discipline] =
                        [low  |-> Mul(hours.low, dr.low_ratio),
                         avg  |-> Mul(hours.avg, dr.avg_ratio),
                         high |-> Mul(hours.high, dr.high_ratio)]
            /\ \A dr \in discipline_reference_ratio \ active :
                  ( /\ dr.discipline \in disciplines
                    /\ \A x \in active : x.discipline # dr.discipline ) =>
                        ret.out.value[dr.discipline] = hours

\* C9 witness: a positive TIC, a Piping row under the active ratio of the
\* project's phase, and a Piping interval that differs from the phase-level
\* reference hours
C9_Witness ==
    /\ CalledDisciplineIntervals
    /\ ret.dq = "rows"
    /\ \E dr \in RowsUnderActiveRatio : dr.discipline = "Piping"
    /\ ret.out.kind = "return"
    /\ ret.out.value["Piping"] # PhaseReferenceHours
    /\ ret.out.value["Piping"].high # Zero

\* C10: a canonical discipline without a row under the active
\* ReferenceRatio of the project's phase (also when the phase has no active
\* ReferenceRatio) gets the phase-level reference hours TIC * phase_low,
\* TIC * phase_avg, TIC * phase_high unchanged.
C10_PassThroughWithoutRow ==
    CalledDisciplineIntervals =>
        LET hours == PhaseReferenceHours
            active == RowsUnderActiveRatio
        IN  /\ ret.out.kind = "return"
            /\ \A d \in disciplines :
                  (\A dr \in active : dr.discipline # d) => ret.out.value[d] = hours

\* C10 witness: a positive TIC in a phase with an active ratio that has a
\* Piping row only; Mechanical got the non-zero phase-level reference hours
C10_Witness ==
    /\ CalledDisciplineIntervals
    /\ ret.dq = "rows"
    /\ \E dr \in RowsUnderActiveRatio : dr.discipline = "Piping"
    /\ ret.out.kind = "return"
    /\ ret.out.value["Mechanical"] = PhaseReferenceHours
    /\ PhaseReferenceHours.high # Zero

\* C23: for every project and every canonical discipline without a
\* discipline-specific ratio, the low, avg and high that
\* calculate_discipline_reference_intervals reports for the discipline are
\* those calculate_reference_interval returns for the same project, for
\* every TIC (null, empty, plain number, text with currency formatting).
C23_PassThroughIsReferenceInterval ==
    CalledDisciplineIntervals =>
        LET interval == calculate_reference_interval(ret.self, ret.q).value
            active == RowsUnderActiveRatio
        IN  /\ ret.out.kind = "return"
            /\ \A d \in disciplines :
                  (\A dr \in active : dr.discipline # d) =>
                      ret.out.value[d] = [low |-> interval.low, avg |-> interval.avg,
                                          high |-> interval.high]

ZeroBounds == [low |-> Zero, avg |-> Zero, high |-> Zero]

----------------------------------------------------------------------------
(* Claims about the ReferenceRatio store *)

CommittedRatioChange ==
    ret.op \in {"create_reference_ratio", "activate_reference_ratio",
                "deactivate_reference_ratio"}

\* the committed change would give its phase a second active row
SecondActiveRow ==
    /\ ret.op \in {"create_reference_ratio", "activate_reference_ratio"}
    /\ \E i \in 1..Len(ret.before) :
          /\ i # ret.id
          /\ ret.before[i].phase = ret.row.phase
          /\ ret.before[i].is_active

\* C16: in every reachable state of the store each phase has at most one
\* ReferenceRatio with is_active = true, so the lookup of get_phase_ratio has
\* at most one candidate; a creation or activation that would give a phase a
\* second active row is rejected by the constraint and leaves the table as it
\* was.
C16_OneActivePerPhase ==
    /\ \A p \in StorePhases : Cardinality(ActiveRatioIds(p)) <= 1
    /\ SecondActiveRow =>
          /\ ret.out = Raise("IntegrityError")
          /\ reference_ratio = ret.before

C16_Witness ==
    /\ SecondActiveRow
    /\ ret.out.kind = "raise"
    /\ \E p \in StorePhases : Cardinality(ActiveRatioIds(p)) = 1

\* C17: a ReferenceRatio is deactivated by flipping is_active and is never
\* deleted: every deactivation of a phase's currently active row succeeds,
\* and the rows of that phase deactivated earlier are still stored.
C17_DeactivationSucceeds ==
    ret.op = "deactivate_reference_ratio" =>
        /\ ret.out.kind = "return"
        /\ \A i \in 1..Len(ret.before) :
              ~ret.before[i].is_active =>
                  (i <= Len(reference_ratio) /\ reference_ratio[i] = ret.before[i])

----------------------------------------------------------------------------
(* Progress calculators (Project.calculate_status_based_progress,           *)
(* Project.calculate_progress)                                              *)

MaxTick == 6
TicksPerDay == 2

\* None in a nullable Float column
NoneNumber == [m |-> 0, e |-> -1]

\* Project.status is a nullable string; StatusNone stands for Python None
StatusNone == "<None>"
Statuses ==
    {"Draft", "Pending Validation", "Approved", "Rejected", "Submitted", "Completed",
     "On Hold", StatusNone}

\* values of Project.progress_percentage
StoredProgress ==
    {NoneNumber, Zero, Dec(1005, 2), Dec(425, 1), Dec(100, 0), Dec(150, 0)}

\* a datetime is a number of ticks, TicksPerDay ticks to the day; NoneDate
\* stands for None in planned_start_date / planned_end_date
NoneDate == -1
Dates == {NoneDate} \cup 0..MaxTick

\* timedelta.days: whole days, rounded down
days(delta) == delta \div TicksPerDay

\* the quotient of two day counts is an exact fraction [num, den] in lowest terms
RECURSIVE GCD(_, _)
GCD(a, b) == IF b = 0 THEN a ELSE GCD(b, a % b)

Rat(n, d) == [num |-> n \div GCD(n, d), den |-> d \div GCD(n, d)]

\* variant: the plain Draft branch tested before the estimate_submitted one
calculate_status_based_progress_draft_first(self) ==
    IF self.status = "Completed" THEN Dec(100, 0)
    ELSE IF self.status = "Submitted" THEN Dec(75, 0)
    ELSE IF self.status = "Approved" THEN Dec(50, 0)
    ELSE IF self.status = "Pending Validation" THEN Dec(30, 0)
    ELSE IF self.status = "Draft" THEN Dec(10, 0)
    ELSE IF self.status = "Draft" /\ self.estimate_submitted THEN Dec(25, 0)
    ELSE IF self.status = "Rejected" THEN Dec(15, 0)
    ELSE self.progress_percentage

\* variant: an unknown status counted as ten points past the stored progress
calculate_status_based_progress_bumps(self) ==
    IF self.status = "Completed" THEN Dec(100, 0)
    ELSE IF self.status = "Submitted" THEN Dec(75, 0)
    ELSE IF self.status = "Approved" THEN Dec(50, 0)
    ELSE IF self.status = "Pending Validation" THEN Dec(30, 0)
    ELSE IF self.status = "Draft" /\ self.estimate_submitted THEN Dec(25, 0)
    ELSE IF self.status = "Draft" THEN Dec(10, 0)
    ELSE IF self.status = "Rejected" THEN Dec(15, 0)
    ELSE Dec(self.progress_percentage.m + 10 * Pow10(self.progress_percentage.e),
             self.progress_percentage.e)

calculate_status_based_progress(self) ==
    IF self.status = "Completed" THEN Dec(100, 0)
    ELSE IF self.status = "Submitted" THEN Dec(75, 0)
    ELSE IF self.status = "Approved" THEN Dec(50, 0)
    ELSE IF self.status = "Pending Validation" THEN Dec(30, 0)
    ELSE IF self.status = "Draft" /\ self.estimate_submitted THEN Dec(25, 0)
    ELSE IF self.status = "Draft" THEN Dec(10, 0)
    ELSE IF self.status = "Rejected" THEN Dec(15, 0)
    ELSE self.progress_percentage

\* variant: the quotient is not capped
Interpolated_uncapped(days_passed, total_days) == Rat(days_passed * 100, total_days)

\* min(100, (days_passed / total_days) * 100)
Interpolated(days_passed, total_days) ==
    IF days_passed * 100 >= 100 * total_days THEN Dec(100, 0)
    ELSE Rat(days_passed * 100, total_days)

\* variant: the empty span tested before the two comparisons with the clock
calculate_progress_span_first(self, now1, now2, now3) ==
    IF self.status = "Completed" THEN Dec(100, 0)
    ELSE IF self.planned_start_date = NoneDate \/ self.planned_end_date = NoneDate
         THEN self.progress_percentage
    ELSE IF days(self.planned_end_date - self.planned_start_date) <= 0 THEN Zero
    ELSE IF now1 < self.planned_start_date THEN Zero
    ELSE IF now2 > self.planned_end_date THEN Dec(100, 0)
    ELSE Interpolated(days(now3 - self.planned_start_date),
                      days(self.planned_end_date - self.planned_start_date))

\* now1, now2, now3: the three readings of datetime.utcnow(), in order
calculate_progress(self, now1, now2, now3) ==
    IF self.status = "Completed" THEN Dec(100, 0)
    ELSE IF self.planned_start_date = NoneDate \/ self.planned_end_date = NoneDate
         THEN self.progress_percentage
    ELSE IF now1 < self.planned_start_date THEN Zero
    ELSE IF now2 > self.planned_end_date THEN Dec(100, 0)
    ELSE IF days(self.planned_end_date - self.planned_start_date) <= 0 THEN Zero
    ELSE Interpolated(days(now3 - self.planned_start_date),
                      days(self.planned_end_date - self.planned_start_date))

CallCalculateStatusBasedProgress ==
    /\ ret = Idle
    /\ \E self \in [status : Statuses, estimate_submitted : BOOLEAN,
                     progress_percentage : StoredProgress] :
          ret' = [op |-> "calculate_status_based_progress", self |-> self,
                  out |-> Return(calculate_status_based_progress(self))]
    /\ UNCHANGED <<ratioTables, projectTables>>

\* the clock does not go back between two readings, and moves by at most a tick
CallCalculateProgress ==
    /\ ret = Idle
    /\ \E self \in [status : {"Completed", "Approved"},
                     progress_percentage : {NoneNumber, Dec(425, 1)},
                     planned_start_date : Dates, planned_end_date : Dates] :
        \E now1 \in 0..MaxTick :
          \E now2 \in {now1, now1 + 1} :
            \E now3 \in {now2, now2 + 1} :
              ret' = [op |-> "calculate_progress", self |-> self,
                      now1 |-> now1, now2 |-> now2, now3 |-> now3,
                      out |-> Return(calculate_progress(self, now1, now2, now3))]
    /\ UNCHANGED <<ratioTables, projectTables>>

NextCalculators ==
    \/ CallCalculateStatusBasedProgress
    \/ CallCalculateProgress
    \/ ReturnToCaller

SpecCalculators == Init /\ [][NextCalculators]_vars

----------------------------------------------------------------------------
(* Claims about the progress calculators *)

CalledStatusBasedProgress == ret.op = "calculate_status_based_progress"

\* C11: calculate_status_based_progress returns 100 for Completed, 75 for
\* Submitted, 50 for Approved, 30 for Pending Validation, 25 for Draft with
\* estimate_submitted, 10 for Draft without it and 15 for Rejected, whatever
\* the stored progress_percentage; for any other status it returns the stored
\* progress_percentage unchanged.
C11_StatusTable ==
    CalledStatusBasedProgress =>
        LET status == ret.self.status
            out == ret.out.value
        IN  /\ ret.out.kind = "return"
            /\ status = "Completed" => out = Dec(100, 0)
            /\ status = "Submitted" => out = Dec(75, 0)
            /\ status = "Approved" => out = Dec(50, 0)
            /\ status = "Pending Validation" => out = Dec(30, 0)
            /\ (status = "Draft" /\ ret.self.estimate_submitted) => out = Dec(25, 0)
            /\ (status = "Draft" /\ ~ret.self.estimate_submitted) => out = Dec(10, 0)
            /\ status = "Rejected" => out = Dec(15, 0)
            /\ status \in {"On Hold", StatusNone} => out = ret.self.progress_percentage

C11_Witness ==
    /\ CalledStatusBasedProgress
    /\ ret.self.status = "Draft"
    /\ ret.self.estimate_submitted
    /\ ret.self.progress_percentage = Dec(100, 0)
    /\ ret.out = Return(Dec(25, 0))

CalledProgress == ret.op = "calculate_progress"

\* C13: calculate_progress applies, in this order: 100 when the status is
\* Completed; the stored progress_percentage when planned_start_date or
\* planned_end_date is missing; 0 when now is before the start; 100 when now
\* is after the end; 0 when the span end - start, in whole days, is <= 0;
\* otherwise min(100, days_elapsed / days_total * 100) over whole-day counts.
C13_DatePrecedence ==
    CalledProgress =>
        LET self == ret.self
            out == ret.out.value
            dated == self.planned_start_date # NoneDate /\ self.planned_end_date # NoneDate
            days_total == days(self.planned_end_date - self.planned_start_date)
            days_elapsed == days(ret.now3 - self.planned_start_date)
            open == self.status # "Completed"
            started == dated /\ ret.now1 >= self.planned_start_date
            running == started /\ ret.now2 <= self.planned_end_date
        IN  /\ ret.out.kind = "return"
            /\ ~open => out = Dec(100, 0)
            /\ (open /\ ~dated) => out = self.progress_percentage
            /\ (open /\ dated /\ ~started) => out = Zero
            /\ (open /\ started /\ ~running) => out = Dec(100, 0)
            /\ (open /\ running /\ days_total <= 0) => out = Zero
            /\ (open /\ running /\ days_total > 0 /\ days_elapsed >= days_total) =>
                  out = Dec(100, 0)
            /\ (open /\ running /\ days_total > 0 /\ days_elapsed < days_total) =>
                  /\ out.num * days_total = days_elapsed * 100 * out.den
                  /\ out.den > 0

\* a third of the span has passed
C13_Witness ==
    /\ CalledProgress
    /\ ret.self.status = "Approved"
    /\ days(ret.self.planned_end_date - ret.self.planned_start_date) = 3
    /\ days(ret.now3 - ret.self.planned_start_date) = 1
    /\ ret.out = Return(Rat(100, 3))

\* a returned progress as a fraction: a decimal m * 10^(-e) is m / 10^e
Numerator(x) == IF "num" \in DOMAIN x THEN x.num ELSE x.m
Denominator(x) == IF "den" \in DOMAIN x THEN x.den ELSE Pow10(x.e)

ProgressLeq(x, y) == Numerator(x) * Denominator(y) <= Numerator(y) * Denominator(x)

\* the call was on a project that is not Completed and has both dates
CalledProgressOfDatedOpenProject ==
    /\ CalledProgress
    /\ ret.self.status # "Completed"
    /\ ret.self.planned_start_date # NoneDate
    /\ ret.self.planned_end_date # NoneDate

\* C27: for a project that is not Completed and has both planned dates, the
\* value calculate_progress returns lies in [0, 100] at every instant, and a
\* call made later (its first reading of the clock not before the last
\* reading of this one) returns at least as much; this includes dates less
\* than a day apart and an end that precedes the start.
C27_InRangeAndNonDecreasing ==
    CalledProgressOfDatedOpenProject =>
        /\ ProgressLeq(Zero, ret.out.value)
        /\ ProgressLeq(ret.out.value, Dec(100, 0))
        /\ \A later1 \in ret.now3..(MaxTick + 2) :
              \A later2 \in {later1, later1 + 1} :
                \A later3 \in {later2, later2 + 1} :
                  ProgressLeq(ret.out.value,
                              calculate_progress(ret.self, later1, later2, later3))

\* half of a two-day span has passed and 50 is returned, and a call at the
\* last instant returns 100
C27_Witness ==
    /\ CalledProgressOfDatedOpenProject
    /\ days(ret.self.planned_end_date - ret.self.planned_start_date) = 2
    /\ ret.out = Return(Rat(50, 1))
    /\ calculate_progress(ret.self, MaxTick, MaxTick, MaxTick) = Dec(100, 0)

----------------------------------------------------------------------------
(* Bulk progress recomputation (startup block of app.py,                    *)
(* update_all_project_progress of update_project_progress.py)               *)

MaxProjects == 2

Sub(a, b) ==
    LET k == MaxOf(a.e, b.e)
    IN  Dec(a.m * Pow10(k - a.e) - b.m * Pow10(k - b.e), k)

Abs(a) == [m |-> IF a.m < 0 THEN -a.m ELSE a.m, e |-> a.e]

\* the project rows the recomputation runs over
TableStatuses == {"Draft", "Completed", "On Hold"}
InitialProgress == {Zero, Dec(1005, 2)}
ProjectRows ==
    [status : TableStatuses, estimate_submitted : BOOLEAN,
     progress_percentage : InitialProgress]

\* variant of the startup test: any difference counts
differs_by_tolerance_exact(old_progress, new_progress) == old_progress # new_progress

\* app.py: abs(old_progress - new_progress) > 0.1
differs_by_tolerance(old_progress, new_progress) ==
    ~Leq(Abs(Sub(old_progress, new_progress)), Dec(1, 1))

\* variant of the test of update_all_project_progress: only an increase counts
differs_upward(old_progress, new_progress) ==
    old_progress # new_progress /\ Leq(old_progress, new_progress)

\* variant of the test of update_all_project_progress: every project counts
differs_always(old_progress, new_progress) == TRUE

\* update_project_progress.py: old_progress != new_progress
differs(old_progress, new_progress) == old_progress # new_progress

\* the loop of the startup block from project i on: the rows as the session
\* holds them, the count of updates, the number of projects the loop went
\* through, and whether abs(old - new) raised TypeError on a None
RECURSIVE startup_loop(_, _)
startup_loop(projects, i) ==
    IF i > Len(projects)
    THEN [projects |-> projects, updated_count |-> 0, processed |-> 0, raised |-> FALSE]
    ELSE LET old_progress == projects[i].progress_percentage
             new_progress == calculate_status_based_progress(projects[i])
         IN  IF old_progress = NoneNumber \/ new_progress = NoneNumber
             THEN [projects |-> projects, updated_count |-> 0, processed |-> 0,
                   raised |-> TRUE]
             ELSE IF differs_by_tolerance(old_progress, new_progress)
             THEN LET rest == startup_loop(
                                [projects EXCEPT ![i].progress_percentage = new_progress],
                                i + 1)
                  IN  [rest EXCEPT !.updated_count = @ + 1, !.processed = @ + 1]
             ELSE [startup_loop(projects, i + 1) EXCEPT !.processed = @ + 1]

\* the loop of update_all_project_progress from project i on
RECURSIVE update_loop(_, _)
update_loop(projects, i) ==
    IF i > Len(projects)
    THEN [projects |-> projects, updated_count |-> 0, processed |-> 0, raised |-> FALSE]
    ELSE LET old_progress == projects[i].progress_percentage
             new_progress == calculate_status_based_progress(projects[i])
         IN  IF differs(old_progress, new_progress)
             THEN LET rest == update_loop(
                                [projects EXCEPT ![i].progress_percentage = new_progress],
                                i + 1)
                  IN  [rest EXCEPT !.updated_count = @ + 1, !.processed = @ + 1]
             ELSE [update_loop(projects, i + 1) EXCEPT !.processed = @ + 1]

\* variant of the end of the job: the commit is issued whatever the count
Recompute_always_commits(op, run) ==
    /\ project' = IF ~run.raised THEN run.projects ELSE project
    /\ last_run' = op
    /\ ret' = [op |-> op, before |-> project, previous |-> last_run,
               returned |-> [i \in 1..Len(project) |->
                               calculate_status_based_progress(project[i])],
               session |-> run.projects,
               updated_count |-> run.updated_count, processed |-> run.processed,
               commits |-> IF ~run.raised THEN 1 ELSE 0, raised |-> run.raised]

\* the end of either job: one commit when the loop finished and counted an
\* update; a loop that raised commits nothing (in the startup block the
\* exception is logged) and its changes are dropped with the session
Recompute(op, run) ==
    LET commits == IF ~run.raised /\ run.updated_count > 0 THEN 1 ELSE 0
    IN  /\ project' = IF commits = 1 THEN run.projects ELSE project
        /\ last_run' = op
        /\ ret' = [op |-> op, before |-> project, previous |-> last_run,
                   returned |-> [i \in 1..Len(project) |->
                                   calculate_status_based_progress(project[i])],
                   session |-> run.projects,
                   updated_count |-> run.updated_count, processed |-> run.processed,
                   commits |-> commits, raised |-> run.raised]

\* the block run once when app.py is loaded
StartupProgressUpdate ==
    /\ ret = Idle
    /\ Recompute("startup_progress_update", startup_loop(project, 1))
    /\ UNCHANGED <<ratioTables, historical_rate, scriptTables>>

UpdateAllProjectProgress ==
    /\ ret = Idle
    /\ Recompute("update_all_project_progress", update_loop(project, 1))
    /\ UNCHANGED <<ratioTables, historical_rate, scriptTables>>

\* a request moves a project to another status
SetStatus ==
    /\ ret = Idle
    /\ \E i \in 1..Len(project), status \in TableStatuses :
          /\ project[i].status # status
          /\ project' = [project EXCEPT ![i].status = status]
    /\ last_run' = "none"
    /\ UNCHANGED <<ratioTables, historical_rate, scriptTables, ret>>

\* a request submits, or takes back, the estimate of a project
SetEstimateSubmitted ==
    /\ ret = Idle
    /\ \E i \in 1..Len(project) :
          project' = [project EXCEPT ![i].estimate_submitted = ~@]
    /\ last_run' = "none"
    /\ UNCHANGED <<ratioTables, historical_rate, scriptTables, ret>>

RECURSIVE SeqsUpTo(_, _)
SeqsUpTo(S, n) ==
    IF n = 0 THEN {<<>>}
    ELSE LET shorter == SeqsUpTo(S, n - 1)
         IN  shorter \cup {Append(q, x) : q \in shorter, x \in S}

InitProgress ==
    /\ reference_ratio = <<>>
    /\ discipline_reference_ratio = {}
    /\ project \in SeqsUpTo(ProjectRows, MaxProjects) \ {<<>>}
    /\ historical_rate = <<>>
    /\ last_run = "none"
    /\ system_setting = <<>>
    /\ pg_table = <<>>
    /\ ret = Idle

NextProgress ==
    \/ SetStatus
    \/ SetEstimateSubmitted
    \/ StartupProgressUpdate
    \/ UpdateAllProjectProgress
    \/ ReturnToCaller

SpecProgress == InitProgress /\ [][NextProgress]_vars

\* the same requests and jobs over a table in which a stored
\* progress_percentage may be NULL
NullableProjectRows ==
    [status : TableStatuses, estimate_submitted : BOOLEAN,
     progress_percentage : InitialProgress \cup {NoneNumber}]

InitRecompute ==
    /\ reference_ratio = <<>>
    /\ discipline_reference_ratio = {}
    /\ project \in SeqsUpTo(NullableProjectRows, MaxProjects) \ {<<>>}
    /\ historical_rate = <<>>
    /\ last_run = "none"
    /\ system_setting = <<>>
    /\ pg_table = <<>>
    /\ ret = Idle

SpecRecompute == InitRecompute /\ [][NextProgress]_vars

----------------------------------------------------------------------------
(* Claims about the bulk progress recomputation *)

Recomputed == ret.op \in {"startup_progress_update", "update_all_project_progress"}

InPercentRange(x) == x # NoneNumber /\ Leq(Zero, x) /\ Leq(x, Dec(100, 0))

\* C12: starting from projects whose stored progress_percentage is in
\* [0, 100], after any sequence of status changes, estimate_submitted changes
\* and bulk recomputations, every stored progress_percentage and every value
\* calculate_status_based_progress returned lies in [0, 100].
C12_ProgressInRange ==
    /\ \A i \in 1..Len(project) : InPercentRange(project[i].progress_percentage)
    /\ Recomputed => \A i \in 1..Len(ret.returned) : InPercentRange(ret.returned[i])

\* a recomputation stored 100 for a completed project and kept the stored
\* value of a project in an unlisted status
C12_Witness ==
    /\ Recomputed
    /\ ret.commits = 1
    /\ \E i, j \in 1..Len(project) :
          /\ ret.before[i].status = "Completed"
          /\ ret.before[i].progress_percentage # Dec(100, 0)
          /\ project[i].progress_percentage = Dec(100, 0)
          /\ ret.before[j].status = "On Hold"
          /\ ret.returned[j] = project[j].progress_percentage

\* the projects of the last recomputation whose new value is off the stored
\* one by more than 0.1, and those whose new value is not the stored one
OffByTolerance ==
    {i \in 1..Len(ret.before) :
        ~Leq(Abs(Sub(ret.before[i].progress_percentage, ret.returned[i])), Dec(1, 1))}

OffAtAll ==
    {i \in 1..Len(ret.before) : ret.before[i].progress_percentage # ret.returned[i]}

\* the recomputation overwrote exactly the projects of S with the value
\* calculate_status_based_progress returned, and counted them
Overwrote(S) ==
    /\ ret.updated_count = Cardinality(S)
    /\ \A i \in 1..Len(ret.before) :
          project[i].progress_percentage =
              IF i \in S THEN ret.returned[i] ELSE ret.before[i].progress_percentage

\* C20 as stated: both implementations overwrite the stored progress of a
\* project only when the new value differs from it by more than 0.1; a
\* project within 0.1 is left unchanged and is not counted as updated.
C20_BothUseTolerance == Recomputed => Overwrote(OffByTolerance)

\* C20: the startup job applies calculate_status_based_progress to every
\* project and overwrites the stored progress only when the new value differs
\* from it by more than 0.1 (a project within 0.1 is left unchanged and not
\* counted); update_all_project_progress overwrites and counts every project
\* whose new value is not equal to the stored one, however small the
\* difference.
C20_ToleranceOnlyAtStartup ==
    /\ ret.op = "startup_progress_update" => Overwrote(OffByTolerance)
    /\ ret.op = "update_all_project_progress" => Overwrote(OffAtAll)

\* update_all_project_progress overwrote a stored 10.05 with 10
C20_Witness ==
    /\ ret.op = "update_all_project_progress"
    /\ \E i \in OffAtAll \ OffByTolerance :
          project[i].progress_percentage = ret.returned[i]
    /\ ret.updated_count >= 1

----------------------------------------------------------------------------
(* Hours and cost (Project.get_hour_distribution, Project.get_total_hours,  *)
(* Project.get_hourly_rate, Project.calculate_estimated_cost)               *)

MaxRates == 2
MaxDate == 2

Add(a, b) ==
    LET k == MaxOf(a.e, b.e)
    IN  Dec(a.m * Pow10(k - a.e) + b.m * Pow10(k - b.e), k)

\* the eleven nullable Float columns, in the order of the model class
hour_fields ==
    <<"process_sid_hours", "civil_structure_hours", "piping_hours", "mechanical_hours",
      "electrical_hours", "instrumentation_control_hours", "digitalization_hours",
      "engineering_management_hours", "environmental_hours", "tools_admin_hours",
      "construction_hours">>

HourFieldNames == {hour_fields[i] : i \in 1..Len(hour_fields)}

\* a value for each column: 0, 0.5, 1, 2, 4, ... (every sum of them tells
\* which columns went into it, but for the 0)
RECURSIVE Pow2(_)
Pow2(n) == IF n = 0 THEN 1 ELSE 2 * Pow2(n - 1)

FieldHours == [i \in 1..Len(hour_fields) |-> IF i = 1 THEN Zero ELSE Dec(5 * Pow2(i - 2), 1)]

\* the hours of a project whose columns of the set nulls are None
ProjectHours(nulls) ==
    [f \in HourFieldNames |->
        IF f \in nulls THEN NoneNumber
        ELSE FieldHours[CHOOSE i \in 1..Len(hour_fields) : hour_fields[i] = f]]

HourProjects == {ProjectHours(nulls) : nulls \in SUBSET HourFieldNames}

\* sum(values): 0 + v1 + v2 + ...; adding None raises TypeError
RECURSIVE sum_from(_, _, _)
sum_from(values, i, acc) ==
    IF i > Len(values) THEN Return(acc)
    ELSE IF values[i] = NoneNumber THEN Raise("TypeError")
    ELSE sum_from(values, i + 1, Add(acc, values[i]))

sum(values) == sum_from(values, 1, Zero)

\* the keys of the dict, in insertion order
hour_distribution_keys ==
    <<"Process & SID", "Civil & Structure", "Piping", "Mechanical", "Electrical",
      "Instrumentation & Control", "Digitalization", "Engineering Management",
      "Environmental", "Tools Admin", "Construction">>

get_hour_distribution(self) ==
    [d \in disciplines |->
        CASE d = "Process & SID"             -> self.process_sid_hours
          [] d = "Civil & Structure"         -> self.civil_structure_hours
          [] d = "Piping"                    -> self.piping_hours
          [] d = "Mechanical"                -> self.mechanical_hours
          [] d = "Electrical"                -> self.electrical_hours
          [] d = "Instrumentation & Control" -> self.instrumentation_control_hours
          [] d = "Digitalization"            -> self.digitalization_hours
          [] d = "Engineering Management"    -> self.engineering_management_hours
          [] d = "Environmental"             -> self.environmental_hours
          [] d = "Tools Admin"               -> self.tools_admin_hours
          [] d = "Construction"              -> self.construction_hours]

get_total_hours(self) ==
    sum([i \in 1..Len(hour_distribution_keys) |->
            get_hour_distribution(self)[hour_distribution_keys[i]]])

\* HistoricalRate rows: rate (not null) and effective_date, a day number
HistoricalRates == [rate : {Zero, Dec(4505, 1), Dec(600, 0)}, effective_date : 1..MaxDate]

\* variant: the row inserted last
LastInsertedRate == {Len(historical_rate)}

\* query.order_by(effective_date.desc()).first(): a row with the greatest
\* effective_date (any of them when several share it), or None
LatestRate ==
    IF historical_rate = <<>> THEN {0}
    ELSE {i \in 1..Len(historical_rate) :
            \A j \in 1..Len(historical_rate) :
                historical_rate[j].effective_date <= historical_rate[i].effective_date}

\* latest_rate: the id of the row the query gave, 0 for None
get_hourly_rate(latest_rate) ==
    IF latest_rate # 0 THEN historical_rate[latest_rate].rate ELSE Dec(500, 0)

calculate_estimated_cost(self, latest_rate) ==
    LET total_hours == sum([i \in 1..Len(hour_fields) |-> self[hour_fields[i]]])
    IN  IF total_hours.kind = "raise" THEN total_hours
        ELSE Return(Mul(total_hours.value, get_hourly_rate(latest_rate)))

CallGetTotalHours ==
    /\ ret = Idle
    /\ \E self \in HourProjects :
          ret' = [op |-> "get_total_hours", self |-> self, out |-> get_total_hours(self)]
    /\ UNCHANGED <<ratioTables, projectTables>>

NextHours ==
    \/ CallGetTotalHours
    \/ ReturnToCaller

SpecHours == Init /\ [][NextHours]_vars

\* an administrator records a rate
InsertHistoricalRate ==
    /\ ret = Idle
    /\ Len(historical_rate) < MaxRates
    /\ \E row \in HistoricalRates : historical_rate' = Append(historical_rate, row)
    /\ UNCHANGED <<ratioTables, project, last_run, scriptTables, ret>>

\* the projects whose cost is asked for: every column set, one column None,
\* every column None
CostProjects ==
    {ProjectHours({}), ProjectHours({"piping_hours"}), ProjectHours(HourFieldNames)}

CallCalculateEstimatedCost ==
    /\ ret = Idle
    /\ \E self \in CostProjects, latest_rate \in LatestRate :
          ret' = [op |-> "calculate_estimated_cost", self |-> self,
                  latest_rate |-> latest_rate,
                  out |-> calculate_estimated_cost(self, latest_rate)]
    /\ UNCHANGED <<ratioTables, projectTables>>

NextCost ==
    \/ InsertHistoricalRate
    \/ CallCalculateEstimatedCost
    \/ ReturnToCaller

SpecCost == Init /\ [][NextCost]_vars

----------------------------------------------------------------------------
(* Claims about hours and cost *)

\* the arithmetic sum of the eleven columns from column i on, None counted as 0
RECURSIVE SumNullAsZero(_, _)
SumNullAsZero(self, i) ==
    IF i > Len(hour_fields) THEN Zero
    ELSE Add(IF self[hour_fields[i]] = NoneNumber THEN Zero ELSE self[hour_fields[i]],
             SumNullAsZero(self, i + 1))

\* C14: get_total_hours returns the sum of the eleven discipline-hour columns
\* for every combination of null columns and non-negative values, a null
\* counted as 0, and does not raise when some or all columns are null.
C14_NullCountsAsZero ==
    ret.op = "get_total_hours" => ret.out = Return(SumNullAsZero(ret.self, 1))

CalledEstimatedCost == ret.op = "calculate_estimated_cost"

\* the rows of historical_rate with the greatest effective_date
GreatestDate ==
    {i \in 1..Len(historical_rate) :
        \A j \in 1..Len(historical_rate) :
            historical_rate[j].effective_date <= historical_rate[i].effective_date}

\* C15: after any sequence of HistoricalRate insertions, in any order of
\* effective dates, calculate_estimated_cost gives get_total_hours() * r,
\* where r is the rate of a row with the greatest effective_date (not of the
\* row inserted last), and r = 500 when there is no row.
C15_CostUsesLatestDatedRate ==
    CalledEstimatedCost =>
        LET total_hours == get_total_hours(ret.self)
        IN  IF total_hours.kind = "raise" THEN ret.out = total_hours
            ELSE IF historical_rate = <<>>
                 THEN ret.out = Return(Mul(total_hours.value, Dec(500, 0)))
                 ELSE \E i \in GreatestDate :
                        ret.out = Return(Mul(total_hours.value, historical_rate[i].rate))

\* the row inserted first has the later date, and its rate is the one used
C15_Witness ==
    /\ CalledEstimatedCost
    /\ Len(historical_rate) = 2
    /\ historical_rate[1].effective_date > historical_rate[2].effective_date
    /\ historical_rate[1].rate # historical_rate[2].rate
    /\ ret.self = ProjectHours({})
    /\ ret.out = Return(Mul(SumNullAsZero(ret.self, 1), historical_rate[1].rate))

----------------------------------------------------------------------------
(* Ratio forms (ReferenceRatioForm, DisciplineReferenceRatioForm)           *)

\* data of a FloatField: None for a blank or unparsable input
FormFloats == {NoneNumber, Zero, Dec(25, 2), Dec(5, 1), Dec(15, 1)}

\* submitted values of the phase field: two of the choices, and a value that
\* is not among them
FormPhases == StorePhases \cup {"NoSuchPhase"}

ReferenceRatioForm_phase_choices == CanonicalPhases \cup {"Other"}

\* DataRequired: the data is truthy
DataRequired(data) == data # NoneNumber /\ data # Zero

\* NumberRange(min=0, max=1)
NumberRange(data) == data # NoneNumber /\ Leq(Zero, data) /\ Leq(data, One)

\* validators=[DataRequired(), NumberRange(min=0, max=1)]
ratio_field_valid(data) == DataRequired(data) /\ NumberRange(data)

\* variant: only low against avg is compared
validate_high_ratio_low_avg_only(form) ==
    ~(form.low_ratio # NoneNumber /\ form.avg_ratio # NoneNumber
        /\ ~Leq(form.low_ratio, form.avg_ratio))

\* ReferenceRatioForm.validate_high_ratio: TRUE when no ValidationError is raised
validate_high_ratio(form) ==
    /\ ~(form.low_ratio # NoneNumber /\ form.avg_ratio # NoneNumber
          /\ ~Leq(form.low_ratio, form.avg_ratio))
    /\ ~(form.avg_ratio # NoneNumber /\ form.high_ratio # NoneNumber
          /\ ~Leq(form.avg_ratio, form.high_ratio))

\* ReferenceRatioForm.validate(): every field passes its validators, and
\* high_ratio its inline validator
ReferenceRatioForm_validate(form) ==
    /\ form.phase \in ReferenceRatioForm_phase_choices
    /\ ratio_field_valid(form.low_ratio)
    /\ ratio_field_valid(form.avg_ratio)
    /\ ratio_field_valid(form.high_ratio)
    /\ validate_high_ratio(form)

\* DisciplineReferenceRatioForm.validate(): the class has no inline validator
DisciplineReferenceRatioForm_validate(form) ==
    /\ form.discipline \in disciplines
    /\ ratio_field_valid(form.low_ratio)
    /\ ratio_field_valid(form.avg_ratio)
    /\ ratio_field_valid(form.high_ratio)

\* an administrator submits ReferenceRatioForm; a valid form is stored as a
\* new active ReferenceRatio
SubmitReferenceRatioForm ==
    /\ ret = Idle
    /\ Len(reference_ratio) < MaxRatioRows
    /\ \E form \in [phase : FormPhases, low_ratio : FormFloats,
                     avg_ratio : FormFloats, high_ratio : FormFloats] :
          IF ReferenceRatioForm_validate(form)
          THEN Commit("create_reference_ratio", Len(reference_ratio) + 1,
                      Append(reference_ratio,
                             ReferenceRatio(form.phase, form.low_ratio,
                                            form.avg_ratio, form.high_ratio)))
          ELSE /\ ret' = [op |-> "ReferenceRatioForm.validate", form |-> form,
                          out |-> Return(FALSE)]
               /\ UNCHANGED reference_ratio
    /\ UNCHANGED <<discipline_reference_ratio, projectTables>>

\* an administrator submits DisciplineReferenceRatioForm
ValidateDisciplineReferenceRatioForm ==
    /\ ret = Idle
    /\ \E form \in [discipline : StoredDisciplines, low_ratio : FormFloats,
                     avg_ratio : FormFloats, high_ratio : FormFloats] :
          ret' = [op |-> "DisciplineReferenceRatioForm.validate", form |-> form,
                  out |-> Return(DisciplineReferenceRatioForm_validate(form))]
    /\ UNCHANGED <<ratioTables, projectTables>>

NextForms ==
    \/ SubmitReferenceRatioForm
    \/ ValidateDisciplineReferenceRatioForm
    \/ CallGetPhaseRatio
    \/ ReturnToCaller

SpecForms == Init /\ [][NextForms]_vars

----------------------------------------------------------------------------
(* Claims about the ratio forms *)

InUnitOrder(low, avg, high) ==
    Leq(Zero, low) /\ Leq(low, avg) /\ Leq(avg, high) /\ Leq(high, One)

\* C18: every DisciplineReferenceRatio that passes
\* DisciplineReferenceRatioForm validation has 0 <= low_ratio <= avg_ratio
\* <= high_ratio <= 1, the ordering ReferenceRatioForm enforces.
C18_DisciplineFormOrders ==
    (ret.op = "DisciplineReferenceRatioForm.validate" /\ ret.out = Return(TRUE)) =>
        InUnitOrder(ret.form.low_ratio, ret.form.avg_ratio, ret.form.high_ratio)

\* C19: for each of the seven canonical phases get_phase_ratio returns
\* ratios with 0 <= low <= avg <= high <= 1, from the built-in table and from
\* an active ReferenceRatio that ReferenceRatioForm validation accepted.
C19_CanonicalRatiosInUnitOrder ==
    (CalledGetPhaseRatio /\ ret.self.phase \in CanonicalPhases) =>
        /\ ret.out.kind = "return"
        /\ InUnitOrder(ret.out.value.low, ret.out.value.avg, ret.out.value.high)

\* the ratios of a stored Design row, not the built-in ones, were returned
C19_Witness ==
    /\ CalledGetPhaseRatio
    /\ ret.self.phase = "Design"
    /\ ret.q.kind = "row"
    /\ ret.out.value # default_ratios["Design"]
    /\ ret.out.value.low # ret.out.value.high

----------------------------------------------------------------------------
(* Claims about one run of the bulk progress recomputation, over a table    *)
(* that may hold NULL progress                                              *)

\* the progress of project i can be computed and compared, and by the test
\* of the implementation that ran the project needs an update
NeedsUpdate(i) ==
    /\ ret.before[i].progress_percentage # NoneNumber
    /\ ret.returned[i] # NoneNumber
    /\ IF ret.op = "startup_progress_update"
       THEN differs_by_tolerance(ret.before[i].progress_percentage, ret.returned[i])
       ELSE differs(ret.before[i].progress_percentage, ret.returned[i])

\* C21: when computing or comparing the progress of one project fails, the
\* process does not crash and the recomputation goes on: every other project
\* that needs an update is updated, and the update is committed.
C21_FailureIsolated ==
    Recomputed =>
        /\ ~(ret.op = "update_all_project_progress" /\ ret.raised)
        /\ \A i \in 1..Len(ret.before) :
              NeedsUpdate(i) => project[i].progress_percentage = ret.returned[i]

\* C22: one run issues at most one commit; the commit comes only after every
\* project went through the loop, it holds every row the run changed, and
\* there is none when the run changed no row.
C22_OneCommitAfterLoop ==
    Recomputed =>
        /\ ret.commits \in {0, 1}
        /\ ret.commits = 1 =>
              (ret.processed = Len(ret.before) /\ project = ret.session)
        /\ ret.session = ret.before =>
              (ret.commits = 0 /\ project = ret.before)

\* one commit stored the new progress of two projects
C22_Witness ==
    /\ Recomputed
    /\ ret.commits = 1
    /\ ret.updated_count = 2
    /\ \A i \in 1..Len(project) :
          project[i].progress_percentage # ret.before[i].progress_percentage

ListedStatus(i) ==
    project[i].status \in
        {"Draft", "Pending Validation", "Submitted", "Approved", "Rejected", "Completed"}

\* C25: when update_all_project_progress has completed, every project in one
\* of the six listed statuses stores the value calculate_status_based_progress
\* returns for it; when the startup recomputation has completed without
\* error, the stored value is within 0.1 of that value.
C25_StoredMatchesStatus ==
    /\ ret.op = "update_all_project_progress" =>
          \A i \in 1..Len(project) :
              ListedStatus(i) =>
                  project[i].progress_percentage = calculate_status_based_progress(project[i])
    /\ (ret.op = "startup_progress_update" /\ ~ret.raised) =>
          \A i \in 1..Len(project) :
              ListedStatus(i) =>
                  /\ project[i].progress_percentage # NoneNumber
                  /\ Leq(Abs(Sub(project[i].progress_percentage,
                                 calculate_status_based_progress(project[i]))),
                         Dec(1, 1))

\* update_all_project_progress replaced a NULL and a 10.05 by the value of
\* the status
C25_Witness ==
    /\ ret.op = "update_all_project_progress"
    /\ ret.commits = 1
    /\ \E i, j \in 1..Len(project) :
          /\ ListedStatus(i) /\ ret.before[i].progress_percentage = NoneNumber
          /\ ListedStatus(j) /\ ret.before[j].progress_percentage = Dec(1005, 2)
          /\ project[j].progress_percentage = Dec(10, 0)

\* the run follows a run of the same implementation, with no project edited
\* in between
SecondRun == Recomputed /\ ret.previous = ret.op

----------------------------------------------------------------------------
(* Revision renumbering (update_revision_numbering.py)                     *)
(* The script runs once per process; what its session has not committed    *)
(* when the process ends is discarded.  The rows of project carry          *)
(* revision_number only.                                                   *)

\* the number of projects in the table
MaxRevisionProjects == 102

\* the revision numbers a project starts with
MaxRevision == 2

\* processed % 100, modified % 100
BatchSize == 100

\* project tables of n rows, at revision 0 on zeros and at high elsewhere;
\* zeros are drawn among the first position, the last and those around the
\* batch boundary
RevisionTable(n, zeros, high) ==
    [i \in 1..n |-> [revision_number |-> IF i \in zeros THEN 0 ELSE high]]

RevisionTables ==
    { RevisionTable(n, zeros, high) :
        n \in 0..MaxRevisionProjects,
        zeros \in SUBSET {1, BatchSize - 1, BatchSize, BatchSize + 1, MaxRevisionProjects},
        high \in 1..MaxRevision }

\* one iteration of "for project in projects": s.session is what the session
\* holds, s.committed what the database holds
revision_loop_body(s, total_projects) ==
    LET processed == s.processed + 1
        positive  == s.session[processed].revision_number > 0
        session   == IF positive
                     THEN [s.session EXCEPT ![processed].revision_number = @ - 1]
                     ELSE s.session
        commit    == positive /\ (processed % BatchSize = 0 \/ processed = total_projects)
    IN [session   |-> session,
        committed |-> IF commit THEN session ELSE s.committed,
        processed |-> processed,
        modified  |-> IF positive THEN s.modified + 1 ELSE s.modified,
        commits   |-> IF commit THEN s.commits + 1 ELSE s.commits]

RECURSIVE revision_loop(_, _)
revision_loop(s, total_projects) ==
    IF s.processed = Len(s.session) THEN s
    ELSE revision_loop(revision_loop_body(s, total_projects), total_projects)

\* update_revision_numbering(): the loop, then the commit of the remainder
update_revision_numbering(projects) ==
    LET total_projects == Len(projects)
        s == revision_loop([session |-> projects, committed |-> projects,
                            processed |-> 0, modified |-> 0, commits |-> 0],
                           total_projects)
    IN IF s.modified % BatchSize # 0
       THEN [s EXCEPT !.committed = s.session, !.commits = @ + 1]
       ELSE s

\* python update_revision_numbering.py
RunUpdateRevisionNumbering ==
    /\ ret = Idle
    /\ LET s == update_revision_numbering(project)
       IN /\ project' = s.committed
          /\ ret' = [op |-> "update_revision_numbering", before |-> project,
                     session |-> s.session, processed |-> s.processed,
                     modified |-> s.modified, commits |-> s.commits,
                     out |-> Return(TRUE)]
    /\ UNCHANGED <<ratioTables, historical_rate, last_run, scriptTables>>

InitRevision ==
    /\ reference_ratio = <<>>
    /\ discipline_reference_ratio = {}
    /\ project \in RevisionTables
    /\ historical_rate = <<>>
    /\ last_run = "none"
    /\ system_setting = <<>>
    /\ pg_table = <<>>
    /\ ret = Idle

NextRevision ==
    \/ RunUpdateRevisionNumbering
    \/ ReturnToCaller

SpecRevision == InitRevision /\ [][NextRevision]_vars

----------------------------------------------------------------------------
(* Claims about the revision renumbering *)

Renumbered == ret.op = "update_revision_numbering"

\* what the script is to leave in row i
Decremented(i) ==
    IF ret.before[i].revision_number > 0
    THEN ret.before[i].revision_number - 1
    ELSE ret.before[i].revision_number

\* C28: when update_revision_numbering has returned, every project whose
\* revision_number was n > 0 is stored with n - 1 and every project at 0 is
\* unchanged, every decrement being committed, for every number of projects
\* and of modified projects and every position of the modified projects.
C28_EveryDecrementCommitted ==
    Renumbered =>
        /\ Len(project) = Len(ret.before)
        /\ \A i \in 1..Len(project) : project[i].revision_number = Decremented(i)

----------------------------------------------------------------------------
(* Migration to PostgreSQL (migrate_to_postgres.py)                        *)
(* The rows read from SQLite are numbered 1..n; a row fails when its       *)
(* INSERT raises.  pg_table holds the rows the PostgreSQL table has        *)
(* committed; the rows of the open transaction are carried by the loop.    *)

\* the number of rows of a small table
MaxRows == 6

\* success_count % 100
CommitEvery == 100

\* rows and the set of rows whose INSERT raises: every pattern over a small
\* table, and patterns around the first and the last row and the batch
\* boundary over a table of more than a batch
MigrationInputs ==
    { [rows |-> n, failing |-> f] : n \in 0..MaxRows, f \in SUBSET (1..MaxRows) }
    \cup
    { [rows |-> n, failing |-> f] :
        n \in {CommitEvery + 1, CommitEvery + 2},
        f \in SUBSET {1, 2, CommitEvery, CommitEvery + 1, CommitEvery + 2} }

\* one iteration of "for row in rows" on row s.row: s.committed is what the
\* table holds, s.pending what the open transaction has inserted
insert_loop_body(s, failing) ==
    IF s.row \in failing
    THEN [s EXCEPT !.pending = <<>>, !.row = @ + 1]
    ELSE LET pending == Append(s.pending, s.row)
         IN IF s.success_count % CommitEvery = 0
            THEN [committed |-> s.committed \o pending, pending |-> <<>>,
                  success_count |-> s.success_count + 1, row |-> s.row + 1]
            ELSE [committed |-> s.committed, pending |-> pending,
                  success_count |-> s.success_count + 1, row |-> s.row + 1]

RECURSIVE insert_loop(_, _, _)
insert_loop(s, rows, failing) ==
    IF s.row > rows THEN s
    ELSE insert_loop(insert_loop_body(s, failing), rows, failing)

\* insert_data_to_postgres(session, table, rows, columns): the table after
\* the call and the value returned
insert_data_to_postgres(table, rows, failing) ==
    IF rows = 0 THEN [committed |-> table, out |-> Return(0)]
    ELSE LET s == insert_loop([committed |-> table, pending |-> <<>>,
                               success_count |-> 0, row |-> 1], rows, failing)
         IN [committed |-> s.committed \o s.pending,
             out |-> Return(s.success_count)]

\* migrate_table on a table PostgreSQL holds empty
MigrateTable ==
    /\ ret = Idle
    /\ pg_table = <<>>
    /\ \E input \in MigrationInputs :
         /\ input.failing \subseteq 1..input.rows
         /\ LET r == insert_data_to_postgres(pg_table, input.rows, input.failing)
            IN /\ pg_table' = r.committed
               /\ ret' = [op |-> "insert_data_to_postgres", before |-> pg_table,
                          rows |-> input.rows, failing |-> input.failing,
                          out |-> r.out]
    /\ UNCHANGED <<ratioTables, project, historical_rate, last_run, system_setting>>

\* ReturnToCaller for the migration: the next table is migrated into an
\* empty table of its own
NextTable ==
    /\ ret # Idle
    /\ ret' = Idle
    /\ pg_table' = <<>>
    /\ UNCHANGED <<ratioTables, project, historical_rate, last_run, system_setting>>

NextMigration ==
    \/ MigrateTable
    \/ NextTable

SpecMigration == Init /\ [][NextMigration]_vars

----------------------------------------------------------------------------
(* Claims about the migration *)

Inserted == ret.op = "insert_data_to_postgres"

\* C29: the row count insert_data_to_postgres returns equals the number of
\* rows the call has committed to the PostgreSQL table, for every pattern of
\* per-row failures: the rollback of a failing row discards no row that was
\* counted before it.
C29_CountIsCommittedRows ==
    Inserted =>
        /\ ret.out.value = Len(pg_table) - Len(ret.before)
        /\ \A row \in 1..ret.rows :
             row \notin ret.failing => \E k \in 1..Len(pg_table) : pg_table[k] = row

----------------------------------------------------------------------------
(* System settings (SystemSetting.get_value, SystemSetting.set_value)      *)
(* A Python value is [t, v]: its type and, for str a text, for int an      *)
(* integer, for float a decimal, for bool a Boolean, for list a sequence   *)
(* of integers; None is PyNone.                                            *)

PyStrValue(text) == [t |-> "str", v |-> text]
PyIntValue(n) == [t |-> "int", v |-> n]
PyFloatValue(d) == [t |-> "float", v |-> d]
PyBoolValue(b) == [t |-> "bool", v |-> b]
PyListValue(items) == [t |-> "list", v |-> items]
PyNone == [t |-> "NoneType", v |-> 0]

DigitChar == <<"0", "1", "2", "3", "4", "5", "6", "7", "8", "9">>

\* the decimal digits of n >= 0
RECURSIVE NatText(_)
NatText(n) ==
    IF n < 10 THEN <<DigitChar[n + 1]>>
    ELSE Append(NatText(n \div 10), DigitChar[(n % 10) + 1])

\* str(n) of an int
IntText(n) == IF n < 0 THEN <<"-">> \o NatText(0 - n) ELSE NatText(n)

\* the k low digits of n >= 0, zero padded
RECURSIVE FractionText(_, _)
FractionText(n, k) ==
    IF k = 0 THEN <<>>
    ELSE Append(FractionText(n \div 10, k - 1), DigitChar[(n % 10) + 1])

\* str(x) of a float without exponent: the shortest text, with ".0" for an
\* integral value
FloatText(d) ==
    LET abs == IF d.m < 0 THEN 0 - d.m ELSE d.m
        sign == IF d.m < 0 THEN <<"-">> ELSE <<>>
    IN IF d.e = 0 THEN sign \o NatText(abs) \o <<".", "0">>
       ELSE sign \o NatText(abs \div Pow10(d.e)) \o <<".">>
                 \o FractionText(abs % Pow10(d.e), d.e)

\* ', '.join of the texts of a sequence of ints
RECURSIVE JoinInts(_)
JoinInts(items) ==
    IF items = <<>> THEN <<>>
    ELSE IF Len(items) = 1 THEN IntText(items[1])
    ELSE IntText(items[1]) \o <<",", " ">> \o JoinInts(Tail(items))

\* str(value)
PyStr(value) ==
    CASE value.t = "str" -> value.v
      [] value.t = "int" -> IntText(value.v)
      [] value.t = "float" -> FloatText(value.v)
      [] value.t = "bool" -> IF value.v THEN <<"T", "r", "u", "e">>
                             ELSE <<"F", "a", "l", "s", "e">>
      [] value.t = "list" -> <<"[">> \o JoinInts(value.v) \o <<"]">>
      [] value.t = "NoneType" -> NONE

\* json.dumps(value) of a value that is not a str
json_dumps(value) ==
    CASE value.t = "int" -> IntText(value.v)
      [] value.t = "float" -> FloatText(value.v)
      [] value.t = "bool" -> IF value.v THEN <<"t", "r", "u", "e">>
                             ELSE <<"f", "a", "l", "s", "e">>
      [] value.t = "list" -> <<"[">> \o JoinInts(value.v) \o <<"]">>
      [] value.t = "NoneType" -> <<"n", "u", "l", "l">>

\* an optional sign followed by digits only
IsIntLiteral(s) ==
    LET body == IF s # <<>> /\ s[1] \in {"+", "-"} THEN Tail(s) ELSE s
    IN body # <<>> /\ \A i \in 1..Len(body) : body[i] \in Digits

IntLiteralValue(s) ==
    IF s[1] = "-" THEN 0 - DigitsToInt(Tail(s))
    ELSE IF s[1] = "+" THEN DigitsToInt(Tail(s))
    ELSE DigitsToInt(s)

\* int(str): surrounding whitespace is ignored, one sign is accepted, the
\* rest must be digits; anything else raises ValueError
PyInt(s) ==
    LET t == RStrip(LStrip(s))
    IN IF IsIntLiteral(t) THEN [exc |-> "", v |-> IntLiteralValue(t)]
       ELSE [exc |-> "ValueError", v |-> 0]

UpperCase == <<"T", "F", "A", "B", "C">>
LowerCase == <<"t", "f", "a", "b", "c">>

\* str.lower() over the letters that occur
LowerChar(c) ==
    IF \E i \in 1..Len(UpperCase) : UpperCase[i] = c
    THEN LowerCase[CHOOSE i \in 1..Len(UpperCase) : UpperCase[i] = c]
    ELSE c

Lower(s) == [i \in 1..Len(s) |-> LowerChar(s[i])]

\* ('true', 'yes', '1', 'on')
TrueTexts ==
    { <<"t", "r", "u", "e">>, <<"y", "e", "s">>, <<"1">>, <<"o", "n">> }

\* the items of the inside of a JSON array of numbers, split at ','
RECURSIVE SplitAtComma(_, _)
SplitAtComma(s, item) ==
    IF s = <<>> THEN <<item>>
    ELSE IF s[1] = "," THEN <<item>> \o SplitAtComma(Tail(s), <<>>)
    ELSE SplitAtComma(Tail(s), Append(item, s[1]))

\* json.loads(s) of the JSON texts that occur: an integer, a number with a
\* fraction, true, false, null, an array of integers; anything else raises
\* JSONDecodeError
json_loads(s) ==
    LET t == RStrip(LStrip(s))
        unsigned == IF t # <<>> /\ t[1] = "-" THEN Tail(t) ELSE t
        inside == IF Len(t) >= 2 THEN SubSeq(t, 2, Len(t) - 1) ELSE <<>>
        stripped == [i \in 1..Len(SplitAtComma(inside, <<>>)) |->
                        RStrip(LStrip(SplitAtComma(inside, <<>>)[i]))]
        IsJsonInt(x) == IsIntLiteral(x) /\ x[1] # "+"
    IN IF IsJsonInt(t) THEN [exc |-> "", value |-> PyIntValue(IntLiteralValue(t))]
       ELSE IF /\ IsDecimalLiteral(unsigned)
               /\ DotPos(unsigned) > 1
               /\ DotPos(unsigned) < Len(unsigned)
       THEN [exc |-> "", value |-> PyFloatValue(PyFloat(t).v)]
       ELSE IF t = <<"t", "r", "u", "e">> THEN [exc |-> "", value |-> PyBoolValue(TRUE)]
       ELSE IF t = <<"f", "a", "l", "s", "e">> THEN [exc |-> "", value |-> PyBoolValue(FALSE)]
       ELSE IF t = <<"n", "u", "l", "l">> THEN [exc |-> "", value |-> PyNone]
       ELSE IF Len(t) >= 2 /\ t[1] = "[" /\ t[Len(t)] = "]"
       THEN IF RStrip(LStrip(inside)) = <<>>
            THEN [exc |-> "", value |-> PyListValue(<<>>)]
            ELSE IF \A i \in 1..Len(stripped) : IsJsonInt(stripped[i])
            THEN [exc |-> "", value |->
                    PyListValue([i \in 1..Len(stripped) |-> IntLiteralValue(stripped[i])])]
            ELSE [exc |-> "JSONDecodeError", value |-> PyNone]
       ELSE [exc |-> "JSONDecodeError", value |-> PyNone]

\* the keys of the settings
SettingKeys == {"app_name", "page_size"}

\* the values set, each with the setting_type it is a value of
SettingInputs ==
    { [value |-> PyStrValue(<<"a", "b", "c">>), setting_type |-> "string"],
      [value |-> PyIntValue(5), setting_type |-> "int"],
      [value |-> PyFloatValue(Dec(15, 1)), setting_type |-> "float"],
      [value |-> PyBoolValue(TRUE), setting_type |-> "bool"],
      [value |-> PyBoolValue(FALSE), setting_type |-> "bool"],
      [value |-> PyListValue(<<1, 2>>), setting_type |-> "json"] }

\* cls.query.filter_by(setting_key=key).first(): the id of the row, 0 for None
FirstSetting(table, key) ==
    IF \E i \in 1..Len(table) : table[i].setting_key = key
    THEN CHOOSE i \in 1..Len(table) :
            /\ table[i].setting_key = key
            /\ \A j \in 1..(i - 1) : table[j].setting_key # key
    ELSE 0

\* SystemSetting.get_value(key, default) over the rows of table; default_value
\* is the parameter default
get_value(table, key, default_value) ==
    LET id == FirstSetting(table, key)
        setting == table[id]
    IN IF id = 0 THEN default_value
       ELSE IF setting.setting_type = "int"
       THEN IF PyInt(setting.setting_value).exc = ""
            THEN PyIntValue(PyInt(setting.setting_value).v)
            ELSE default_value
       ELSE IF setting.setting_type = "float"
       THEN IF PyFloat(setting.setting_value).exc = ""
            THEN PyFloatValue(PyFloat(setting.setting_value).v)
            ELSE default_value
       ELSE IF setting.setting_type = "bool"
       THEN PyBoolValue(Lower(setting.setting_value) \in TrueTexts)
       ELSE IF setting.setting_type = "json"
       THEN IF json_loads(setting.setting_value).exc = ""
            THEN json_loads(setting.setting_value).value
            ELSE default_value
       ELSE PyStrValue(setting.setting_value)

\* SystemSetting.set_value(key, value, setting_type): the rows after the commit
set_value(table, key, value, setting_type) ==
    LET value_str == IF setting_type = "json" /\ value.t # "str"
                     THEN json_dumps(value)
                     ELSE PyStr(value)
        id == FirstSetting(table, key)
    IN IF id # 0
       THEN [table EXCEPT ![id].setting_value = value_str]
       ELSE Append(table, [setting_key |-> key, setting_value |-> value_str,
                           setting_type |-> setting_type])

CallSetValue ==
    /\ ret = Idle
    /\ \E key \in SettingKeys, input \in SettingInputs :
         /\ system_setting' = set_value(system_setting, key, input.value,
                                        input.setting_type)
         /\ ret' = [op |-> "set_value", key |-> key, value |-> input.value,
                    setting_type |-> input.setting_type, before |-> system_setting,
                    out |-> Return(FirstSetting(system_setting', key))]
    /\ UNCHANGED <<ratioTables, project, historical_rate, last_run, pg_table>>

CallGetValue ==
    /\ ret = Idle
    /\ \E key \in SettingKeys :
         ret' = [op |-> "get_value", key |-> key,
                 out |-> Return(get_value(system_setting, key, PyNone))]
    /\ UNCHANGED <<ratioTables, projectTables>>

NextSettings ==
    \/ CallSetValue
    \/ CallGetValue
    \/ ReturnToCaller

SpecSettings == Init /\ [][NextSettings]_vars

----------------------------------------------------------------------------
(* Claims about the system settings *)

WasSet == ret.op = "set_value"

RowsOfKey(key) == {i \in 1..Len(system_setting) : system_setting[i].setting_key = key}

\* C30: after set_value(key, v, t) with t one of string, int, float, bool,
\* json, get_value(key) returns v as a value of type t, whatever set_value
\* calls were made for the key before (also with another setting_type), and
\* exactly one row exists for the key.
C30_RoundTrip ==
    WasSet =>
        /\ get_value(system_setting, ret.key, PyNone) = ret.value
        /\ Cardinality(RowsOfKey(ret.key)) = 1

\* the round trip of a set_value that created the row of the key
RoundTripOfNewKey ==
    (WasSet /\ FirstSetting(ret.before, ret.key) = 0) =>
        /\ get_value(system_setting, ret.key, PyNone) = ret.value
        /\ Cardinality(RowsOfKey(ret.key)) = 1

====
